---- MODULE Spec2Model ----
(***************************************************************************)
(* crill::seqlock_object<T> (include/crill/seqlock_object.h).              *)
(*                                                                         *)
(* One writer thread and a set of reader threads share one object.  Every  *)
(* access to an atomic (the counter seq, one byte of the storage) is one   *)
(* step; the threads' steps interleave freely.  In store the release fence *)
(* of memcpy_in follows the first counter write and the second counter     *)
(* write is a release; in try_load the first counter read is an acquire    *)
(* and the acquire fence of memcpy_out precedes the second counter read:   *)
(* a reader that sees a byte of a store sees its first counter write, and  *)
(* a reader that sees its second counter write sees all its bytes, which   *)
(* is what taking the accesses of each thread one after the other gives.   *)
(*                                                                         *)
(* Spec: the constructor, at most MaxStores store calls of the writer and  *)
(* the readers.  LiveSpec, QuietSpec: the same under fair scheduling, with *)
(* a writer that never stops and with one that does.  WrapSpec: the writer *)
(* never stops, so that the counter wraps.  TwoWriterSpec: a second thread *)
(* calls store as well, which the class comment rules out.                 *)
(***************************************************************************)
EXTENDS Integers, Sequences, FiniteSets, TLC

\* ------------------------------------------------------------------ bounds
\* Calls of store in one run, the constructor's call included.
MaxStores == 2
\* Reader threads.
NumReaders == 1
\* Width in bits of the counter (std::size_t); arithmetic on it is modulo
\* 2^SeqBits.
SeqBits == 3

\* sizeof(T): the storage has that many bytes.
SizeofT == 2

\* The values one byte of the model takes.
Byte == {0, 1}

\* T is trivially copyable: a value is its object representation, one byte
\* per index.
T == [1..SizeofT -> Byte]

Readers == 1..NumReaders

\* The arguments the store calls of the model are given: the values whose
\* first and last byte differ.  Every mixture of the bytes of two of them is
\* a value that no call is given, and a copy that takes a byte from the wrong
\* place changes the value.
Inputs == {v \in T : v[1] # v[SizeofT]}

\* What a reader's object holds before its first call: no argument of a store.
NotStored == [i \in 1..SizeofT |-> 0]

SeqModulus == 2 ^ SeqBits

\* Marks a counter variable that holds no reading.
Unread == -1

VARIABLES
    seq,          \* std::atomic<std::size_t> seq
    data,         \* atomic_storage.data, byte by byte
    constructed,  \* the constructor has returned
    wpc,          \* where the writer is in store
    old_seq,      \* store's local old_seq
    w_t,          \* store's parameter t
    w_i,          \* memcpy_in's loop index: bytes already written
    wsteps,       \* atomic accesses the current (or last) store has made
    history,      \* the arguments of the store calls so far, in call order
    rpc,          \* where each reader is in load / try_load
    inLoad,       \* the reader's try_load was called by load's loop
    seq1,         \* try_load's local seq1
    t,            \* the object try_load copies into (load's local t)
    r_i,          \* memcpy_out's loop index: bytes already read
    ret,          \* what the reader's last try_load returned
    rsteps,       \* atomic accesses the current (or last) try_load has made
    overlap,      \* a store wrote the counter or a byte since the reader's
                  \* first counter read of the current (or last) try_load
    incs,         \* while the reader is between its two counter reads: how
                  \* often a store has written the counter since the first
                  \* (counted up to one more than a full wrap)
    obs,          \* the successful try_loads of the reader, in order: of
                  \* each its first counter reading and the value delivered
                  \* (a run of equal entries is recorded once)
    other         \* a call of store made by a second thread, against the
                  \* class comment ("allows only a single writer"): where it
                  \* is (pc), its locals old_seq, t and memcpy_in's index i,
                  \* the number of the first writer's calls when it was
                  \* made, whether it ran while a call of the first writer
                  \* did, whether it wrote a byte with the counter even

wvars == <<wpc, old_seq, w_t, w_i, wsteps, history>>
rvars == <<rpc, inLoad, seq1, t, r_i, ret, rsteps, obs>>
vars == <<seq, data, constructed, wvars, rvars, overlap, incs, other>>

\* ----------------------------------------------------------- pure helpers
\* Wrap for a counter one bit narrower than SeqBits.
Wrap_Narrow(x) == x % (SeqModulus \div 2)

\* std::size_t arithmetic.
Wrap(x) == x % SeqModulus

\* IsOdd with the test left out: try_load never returns early.
IsOdd_Never(s) == FALSE

\* IsOdd testing the two low bits.
IsOdd_LowTwoBits(s) == s % 4 # 0

\* seq1 % 2 != 0
IsOdd(s) == s % 2 # 0

\* TryLoadResult with the second reading ignored.
TryLoadResult_Always(s1, s2) == TRUE

\* TryLoadResult testing only that the second reading is even.
TryLoadResult_ParityOnly(s1, s2) == s2 % 2 = 0

\* return seq1 == seq2;
TryLoadResult(s1, s2) == s1 = s2

\* What flowing off the end of memcpy_out, which is declared to return T and
\* has no return statement, does (the behaviour is undefined): the call
\* returns to try_load, which never uses the value it should have returned
\* (g++ -O0), or the program is terminated there (g++ -O1 and above).
FlowOffEndOutcomes == {"returns", "traps"}

\* The program has been terminated.
Crashed == \E r \in Readers : rpc[r] = "trap"

\* The readers whose try_load is between its two counter reads.
InWindow(r) == rpc[r] \in {"copy", "seq2"}

Range(s) == {s[i] : i \in 1..Len(s)}

\* The record of successful try_loads after one more, e.  A record holds at
\* most one entry for each store call in history (where history is not kept,
\* nothing is recorded).
Observe(o, e) ==
    IF Len(o) >= Len(history) \/ (o # <<>> /\ o[Len(o)] = e) THEN o ELSE Append(o, e)

\* No second thread has called store.
NoOtherStore ==
    [pc |-> "none", old_seq |-> 0, t |-> NotStored, i |-> 0, index |-> 0,
     concurrent |-> FALSE, wroteWhileEven |-> FALSE]

\* ------------------------------------------------------------------- Init
\* seq = 0 is the member initializer; the storage is not initialized before
\* the constructor's store; no thread has called anything.
Init ==
    /\ seq = 0
    /\ data \in T
    /\ constructed = FALSE
    /\ wpc = "idle"
    /\ old_seq = 0
    /\ w_t = data
    /\ w_i = 0
    /\ wsteps = 0
    /\ history = <<>>
    /\ rpc = [r \in Readers |-> "idle"]
    /\ inLoad = [r \in Readers |-> FALSE]
    /\ seq1 = [r \in Readers |-> Unread]
    /\ t = [r \in Readers |-> NotStored]
    /\ r_i = [r \in Readers |-> 0]
    /\ ret = [r \in Readers |-> "none"]
    /\ rsteps = [r \in Readers |-> 0]
    /\ overlap = [r \in Readers |-> FALSE]
    /\ incs = [r \in Readers |-> 0]
    /\ other = NoOtherStore
    /\ obs = [r \in Readers |-> <<>>]

\* ----------------------------------------------------------------- writer
\* A store write step marks every reader that is between its counter reads.
MarkOverlap == overlap' = [r \in Readers |-> overlap[r] \/ InWindow(r)]

\* A store write of the counter is counted for every such reader.
CountIncrement ==
    incs' = [r \in Readers |->
                IF InWindow(r) /\ incs[r] <= SeqModulus THEN incs[r] + 1 ELSE incs[r]]

\* StoreBegin using the counter value the call before read, not the
\* counter's.
StoreBegin_StaleCounter(v) ==
    /\ ~Crashed
    /\ UNCHANGED other
    /\ wpc = "idle"
    /\ w_t' = v
    /\ old_seq' = old_seq
    /\ wpc' = "incr1"
    /\ w_i' = 0
    /\ wsteps' = 1
    /\ UNCHANGED <<seq, data, constructed, rvars, overlap, incs>>

\* StoreBegin writing the first byte before the counter has been written.
StoreBegin_WritesFirstByte(v) ==
    /\ ~Crashed
    /\ UNCHANGED other
    /\ wpc = "idle"
    /\ w_t' = v
    /\ old_seq' = seq
    /\ wpc' = "incr1"
    /\ w_i' = 0
    /\ wsteps' = 1
    /\ data' = [data EXCEPT ![1] = v[1]]
    /\ UNCHANGED <<seq, constructed, rvars, overlap, incs>>

\* store(t), called by the constructor (the first call) or by the writer:
\*     std::size_t old_seq = seq.load(std::memory_order_relaxed);
StoreBegin(v) ==
    /\ ~Crashed
    /\ UNCHANGED other
    /\ wpc = "idle"
    /\ w_t' = v
    /\ old_seq' = seq
    /\ wpc' = "incr1"
    /\ w_i' = 0
    /\ wsteps' = 1
    /\ UNCHANGED <<seq, data, constructed, rvars, overlap, incs>>

\* A store call of a run of at most MaxStores calls; history records it.
StoreLoadSeq(v) ==
    /\ Len(history) < MaxStores
    /\ StoreBegin(v)
    /\ history' = Append(history, v)

\* StoreIncr1 writing old_seq back: the counter stays even during the copy.
StoreIncr1_NoIncrement ==
    /\ ~Crashed
    /\ UNCHANGED other
    /\ wpc = "incr1"
    /\ seq' = Wrap(old_seq)
    /\ wpc' = "copy"
    /\ wsteps' = wsteps + 1
    /\ MarkOverlap
    /\ CountIncrement
    /\ UNCHANGED <<data, constructed, old_seq, w_t, w_i, history, rvars>>

\* StoreIncr1 writing old_seq + 2: the counter is even during the copy.
StoreIncr1_PlusTwo ==
    /\ ~Crashed
    /\ UNCHANGED other
    /\ wpc = "incr1"
    /\ seq' = Wrap(old_seq + 2)
    /\ wpc' = "copy"
    /\ wsteps' = wsteps + 1
    /\ MarkOverlap
    /\ CountIncrement
    /\ UNCHANGED <<data, constructed, old_seq, w_t, w_i, history, rvars>>

\*     seq.store(old_seq + 1, std::memory_order_relaxed);
StoreIncr1 ==
    /\ ~Crashed
    /\ UNCHANGED other
    /\ wpc = "incr1"
    /\ seq' = Wrap(old_seq + 1)
    /\ wpc' = "copy"
    /\ wsteps' = wsteps + 1
    /\ MarkOverlap
    /\ CountIncrement
    /\ UNCHANGED <<data, constructed, old_seq, w_t, w_i, history, rvars>>

\* MemcpyIn copying the first byte of the value into every byte.
MemcpyIn_FirstByte ==
    /\ ~Crashed
    /\ UNCHANGED other
    /\ wpc = "copy"
    /\ w_i < SizeofT
    /\ data' = [data EXCEPT ![w_i + 1] = w_t[1]]
    /\ w_i' = w_i + 1
    /\ wpc' = IF w_i + 1 < SizeofT THEN "copy" ELSE "incr2"
    /\ wsteps' = wsteps + 1
    /\ MarkOverlap
    /\ UNCHANGED incs
    /\ UNCHANGED <<seq, constructed, old_seq, w_t, history, rvars>>

\* MemcpyIn waiting until no reader is between its counter reads.
MemcpyIn_WaitsForReaders ==
    /\ ~Crashed
    /\ UNCHANGED other
    /\ wpc = "copy"
    /\ w_i < SizeofT
    /\ \A r \in Readers : ~InWindow(r)
    /\ data' = [data EXCEPT ![w_i + 1] = w_t[w_i + 1]]
    /\ w_i' = w_i + 1
    /\ wpc' = IF w_i + 1 < SizeofT THEN "copy" ELSE "incr2"
    /\ wsteps' = wsteps + 1
    /\ MarkOverlap
    /\ UNCHANGED incs
    /\ UNCHANGED <<seq, constructed, old_seq, w_t, history, rvars>>

\* MemcpyIn leaving the storage as it is in the constructor's store.
MemcpyIn_NotInConstructor ==
    /\ ~Crashed
    /\ UNCHANGED other
    /\ wpc = "copy"
    /\ w_i < SizeofT
    /\ data' = IF constructed THEN [data EXCEPT ![w_i + 1] = w_t[w_i + 1]] ELSE data
    /\ w_i' = w_i + 1
    /\ wpc' = IF w_i + 1 < SizeofT THEN "copy" ELSE "incr2"
    /\ wsteps' = wsteps + 1
    /\ MarkOverlap
    /\ UNCHANGED incs
    /\ UNCHANGED <<seq, constructed, old_seq, w_t, history, rvars>>

\*     atomic_storage.memcpy_in(t);    one iteration of
\*     for (i = 0; i < sizeof(T); ++i) data[i].store(bytes_in_ptr[i], relaxed);
MemcpyIn ==
    /\ ~Crashed
    /\ UNCHANGED other
    /\ wpc = "copy"
    /\ w_i < SizeofT
    /\ data' = [data EXCEPT ![w_i + 1] = w_t[w_i + 1]]
    /\ w_i' = w_i + 1
    /\ wpc' = IF w_i + 1 < SizeofT THEN "copy" ELSE "incr2"
    /\ wsteps' = wsteps + 1
    /\ MarkOverlap
    /\ UNCHANGED incs
    /\ UNCHANGED <<seq, constructed, old_seq, w_t, history, rvars>>

\* StoreIncr2 writing old_seq: the counter returns to its value before the
\* store.
StoreIncr2_Restore ==
    /\ ~Crashed
    /\ UNCHANGED other
    /\ wpc = "incr2"
    /\ seq' = Wrap(old_seq)
    /\ wpc' = "idle"
    /\ constructed' = TRUE
    /\ wsteps' = wsteps + 1
    /\ MarkOverlap
    /\ CountIncrement
    /\ UNCHANGED <<data, old_seq, w_t, w_i, history, rvars>>

\* StoreIncr2 leaving the counter where it was before the store when the
\* value stored is the value stored before.
StoreIncr2_UnchangedValue ==
    /\ ~Crashed
    /\ UNCHANGED other
    /\ wpc = "incr2"
    /\ seq' = IF Len(history) >= 2 /\ history[Len(history) - 1] = w_t
                THEN Wrap(old_seq)
                ELSE Wrap(old_seq + 2)
    /\ wpc' = "idle"
    /\ constructed' = TRUE
    /\ wsteps' = wsteps + 1
    /\ MarkOverlap
    /\ CountIncrement
    /\ UNCHANGED <<data, old_seq, w_t, w_i, history, rvars>>

\*     seq.store(old_seq + 2, std::memory_order_release);
StoreIncr2 ==
    /\ ~Crashed
    /\ UNCHANGED other
    /\ wpc = "incr2"
    /\ seq' = Wrap(old_seq + 2)
    /\ wpc' = "idle"
    /\ constructed' = TRUE
    /\ wsteps' = wsteps + 1
    /\ MarkOverlap
    /\ CountIncrement
    /\ UNCHANGED <<data, old_seq, w_t, w_i, history, rvars>>

\* ---------------------------------------------------------------- readers
\* TryLoadSeq1 with the copy made before the test of seq1: the bytes are in
\* the object when false is returned.
TryLoadSeq1_CopiesBeforeTest(r, slot, fromLoad) ==
    /\ ~Crashed
    /\ UNCHANGED other
    /\ t' = [t EXCEPT ![r] = IF IsOdd(seq) THEN data ELSE slot]
    /\ inLoad' = [inLoad EXCEPT ![r] = fromLoad]
    /\ r_i' = [r_i EXCEPT ![r] = 0]
    /\ rsteps' = [rsteps EXCEPT ![r] = 1]
    /\ overlap' = [overlap EXCEPT ![r] = FALSE]
    /\ incs' = [incs EXCEPT ![r] = 0]
    /\ IF IsOdd(seq)
         THEN /\ seq1' = [seq1 EXCEPT ![r] = Unread]
              /\ ret' = [ret EXCEPT ![r] = "false"]
              /\ rpc' = [rpc EXCEPT ![r] = IF fromLoad THEN "retry" ELSE "idle"]
         ELSE /\ seq1' = [seq1 EXCEPT ![r] = seq]
              /\ ret' = [ret EXCEPT ![r] = "none"]
              /\ rpc' = [rpc EXCEPT ![r] = "copy"]
    /\ UNCHANGED <<seq, data, constructed, wvars, obs>>

\* try_load's first two lines, with slot the contents of the object it was
\* given:
\*     std::size_t seq1 = seq.load(std::memory_order_acquire);
\*     if (seq1 % 2 != 0) return false;
\* A false returned to load's loop makes it call try_load again.  The locals
\* of a call that has returned false exist no more (seq1 is Unread again).
TryLoadSeq1(r, slot, fromLoad) ==
    /\ ~Crashed
    /\ UNCHANGED other
    /\ t' = [t EXCEPT ![r] = slot]
    /\ inLoad' = [inLoad EXCEPT ![r] = fromLoad]
    /\ r_i' = [r_i EXCEPT ![r] = 0]
    /\ rsteps' = [rsteps EXCEPT ![r] = 1]
    /\ overlap' = [overlap EXCEPT ![r] = FALSE]
    /\ incs' = [incs EXCEPT ![r] = 0]
    /\ IF IsOdd(seq)
         THEN /\ seq1' = [seq1 EXCEPT ![r] = Unread]
              /\ ret' = [ret EXCEPT ![r] = "false"]
              /\ rpc' = [rpc EXCEPT ![r] = IF fromLoad THEN "retry" ELSE "idle"]
         ELSE /\ seq1' = [seq1 EXCEPT ![r] = seq]
              /\ ret' = [ret EXCEPT ![r] = "none"]
              /\ rpc' = [rpc EXCEPT ![r] = "copy"]
    /\ UNCHANGED <<seq, data, constructed, wvars, obs>>

\* A reader calls try_load(t) on an object t of its own.
TryLoadCall(r) ==
    /\ constructed
    /\ rpc[r] = "idle"
    /\ TryLoadSeq1(r, t[r], FALSE)

\* A reader calls load(): T t; and the first try_load(t).  The local t is not
\* initialized: it holds any value of T.
LoadCall(r) ==
    /\ constructed
    /\ rpc[r] = "idle"
    /\ \E g \in T : TryLoadSeq1(r, g, TRUE)

\* LoadRetry leaving the loop: load returns t after a try_load that
\* returned false.
LoadRetry_GivesUp(r) ==
    /\ ~Crashed
    /\ UNCHANGED other
    /\ rpc[r] = "retry"
    /\ rpc' = [rpc EXCEPT ![r] = "idle"]
    /\ UNCHANGED <<seq, data, constructed, wvars, inLoad, seq1, t, r_i, ret,
                   rsteps, obs, overlap, incs>>

\* while (!try_load(t)) /* keep trying */;   the next call of the loop
LoadRetry(r) ==
    /\ rpc[r] = "retry"
    /\ TryLoadSeq1(r, t[r], TRUE)

\* MemcpyOut clearing each byte of the storage it has read.
MemcpyOut_Consumes(r) ==
    /\ ~Crashed
    /\ UNCHANGED other
    /\ rpc[r] = "copy"
    /\ r_i[r] < SizeofT
    /\ t' = [t EXCEPT ![r][r_i[r] + 1] = data[r_i[r] + 1]]
    /\ data' = [data EXCEPT ![r_i[r] + 1] = 0]
    /\ r_i' = [r_i EXCEPT ![r] = r_i[r] + 1]
    /\ rsteps' = [rsteps EXCEPT ![r] = rsteps[r] + 1]
    /\ IF r_i[r] + 1 < SizeofT
         THEN UNCHANGED rpc
         ELSE \E o \in FlowOffEndOutcomes :
                rpc' = [rpc EXCEPT ![r] = IF o = "returns" THEN "seq2" ELSE "trap"]
    /\ UNCHANGED <<seq, constructed, wvars, inLoad, seq1, ret, obs, overlap, incs>>

\*     atomic_storage.memcpy_out(t);   one iteration of
\*     for (i = 0; i < sizeof(T); ++i) bytes_out[i] = data[i].load(relaxed);
\* and, after the last one, the end of memcpy_out.
MemcpyOut(r) ==
    /\ ~Crashed
    /\ UNCHANGED other
    /\ rpc[r] = "copy"
    /\ r_i[r] < SizeofT
    /\ t' = [t EXCEPT ![r][r_i[r] + 1] = data[r_i[r] + 1]]
    /\ r_i' = [r_i EXCEPT ![r] = r_i[r] + 1]
    /\ rsteps' = [rsteps EXCEPT ![r] = rsteps[r] + 1]
    /\ IF r_i[r] + 1 < SizeofT
         THEN UNCHANGED rpc
         ELSE \E o \in FlowOffEndOutcomes :
                rpc' = [rpc EXCEPT ![r] = IF o = "returns" THEN "seq2" ELSE "trap"]
    /\ UNCHANGED <<seq, data, constructed, wvars, inLoad, seq1, ret, obs, overlap, incs>>

\*     std::size_t seq2 = seq.load(std::memory_order_relaxed);
\*     return seq1 == seq2;
\* A true returned to load's loop ends it: load returns t.
TryLoadSeq2(r) ==
    /\ ~Crashed
    /\ UNCHANGED other
    /\ rpc[r] = "seq2"
    /\ rsteps' = [rsteps EXCEPT ![r] = rsteps[r] + 1]
    /\ r_i' = [r_i EXCEPT ![r] = 0]
    /\ incs' = [incs EXCEPT ![r] = 0]
    /\ IF LET seq2 == seq IN TryLoadResult(seq1[r], seq2)
         THEN /\ ret' = [ret EXCEPT ![r] = "true"]
              /\ rpc' = [rpc EXCEPT ![r] = "idle"]
              /\ obs' = [obs EXCEPT ![r] = Observe(obs[r], [seq1 |-> seq1[r], value |-> t[r]])]
              /\ UNCHANGED <<seq1, overlap>>
         ELSE /\ ret' = [ret EXCEPT ![r] = "false"]
              /\ rpc' = [rpc EXCEPT ![r] = IF inLoad[r] THEN "retry" ELSE "idle"]
              /\ seq1' = [seq1 EXCEPT ![r] = Unread]
              /\ overlap' = [overlap EXCEPT ![r] = FALSE]
              /\ UNCHANGED obs
    /\ UNCHANGED <<seq, data, constructed, wvars, inLoad, t>>

\* ------------------------------------------------------------------- Next
\* A terminated program takes no step: every action requires ~Crashed.
Next ==
    \/ \E v \in Inputs : StoreLoadSeq(v)
    \/ StoreIncr1
    \/ MemcpyIn
    \/ StoreIncr2
    \/ \E r \in Readers : TryLoadCall(r)
    \/ \E r \in Readers : LoadCall(r)
    \/ \E r \in Readers : LoadRetry(r)
    \/ \E r \in Readers : MemcpyOut(r)
    \/ \E r \in Readers : TryLoadSeq2(r)

Spec == Init /\ [][Next]_vars

\* A store call of a writer that never stops calling store; history is not
\* kept.
StoreForever(v) ==
    /\ StoreBegin(v)
    /\ UNCHANGED history

NextForever ==
    \/ \E v \in Inputs : StoreForever(v)
    \/ StoreIncr1
    \/ MemcpyIn
    \/ StoreIncr2
    \/ \E r \in Readers : TryLoadCall(r)
    \/ \E r \in Readers : LoadCall(r)
    \/ \E r \in Readers : LoadRetry(r)
    \/ \E r \in Readers : MemcpyOut(r)
    \/ \E r \in Readers : TryLoadSeq2(r)

\* The writer's thread and each reader's thread are scheduled again and
\* again: the writer takes the next step of its store and calls store again,
\* a reader inside load or try_load takes its next step.
WriterRuns ==
    WF_vars((\E v \in Inputs : StoreForever(v)) \/ StoreIncr1 \/ MemcpyIn \/ StoreIncr2)

ReaderRuns(r) == WF_vars(LoadRetry(r) \/ MemcpyOut(r) \/ TryLoadSeq2(r))

LiveSpec ==
    Init /\ [][NextForever]_vars /\ WriterRuns /\ \A r \in Readers : ReaderRuns(r)

\* One reader: what a try_load reads does not depend on the other readers.
TheReader == CHOOSE r \in Readers : TRUE

\* The writer never stops calling store, so that the counter wraps, and one
\* reader calls load and try_load.
NextWrap ==
    \/ \E v \in Inputs : StoreForever(v)
    \/ StoreIncr1
    \/ MemcpyIn
    \/ StoreIncr2
    \/ TryLoadCall(TheReader)
    \/ LoadCall(TheReader)
    \/ LoadRetry(TheReader)
    \/ MemcpyOut(TheReader)
    \/ TryLoadSeq2(TheReader)

WrapSpec == Init /\ [][NextWrap]_vars

\* ---------------------------------------------------------- second writer
\* store(t) executed by a second thread, which the class does not allow: the
\* same four lines of store, on the second thread's own locals.

\* The second thread's store runs, at this step, while a call of the first
\* writer runs or after one was made since its own call.
OtherMeetsStore == wpc # "idle" \/ Len(history) > other.index

\*     std::size_t old_seq = seq.load(std::memory_order_relaxed);
OtherStoreBegin(v) ==
    /\ ~Crashed
    /\ constructed
    /\ other.pc = "none"
    /\ other' = [pc |-> "incr1", old_seq |-> seq, t |-> v, i |-> 0,
                 index |-> Len(history), concurrent |-> wpc # "idle",
                 wroteWhileEven |-> FALSE]
    /\ UNCHANGED <<seq, data, constructed, wvars, rvars, overlap, incs>>

\*     seq.store(old_seq + 1, std::memory_order_relaxed);
OtherStoreIncr1 ==
    /\ ~Crashed
    /\ other.pc = "incr1"
    /\ seq' = Wrap(other.old_seq + 1)
    /\ other' = [other EXCEPT !.pc = "copy",
                              !.concurrent = @ \/ OtherMeetsStore]
    /\ MarkOverlap
    /\ CountIncrement
    /\ UNCHANGED <<data, constructed, wvars, rvars>>

\*     atomic_storage.memcpy_in(t);    one iteration of its loop
OtherMemcpyIn ==
    /\ ~Crashed
    /\ other.pc = "copy"
    /\ other.i < SizeofT
    /\ data' = [data EXCEPT ![other.i + 1] = other.t[other.i + 1]]
    /\ other' = [other EXCEPT !.i = @ + 1,
                              !.pc = IF other.i + 1 < SizeofT THEN "copy" ELSE "incr2",
                              !.concurrent = @ \/ OtherMeetsStore,
                              !.wroteWhileEven = @ \/ seq % 2 = 0]
    /\ MarkOverlap
    /\ UNCHANGED <<seq, constructed, wvars, rvars, incs>>

\*     seq.store(old_seq + 2, std::memory_order_release);
OtherStoreIncr2 ==
    /\ ~Crashed
    /\ other.pc = "incr2"
    /\ seq' = Wrap(other.old_seq + 2)
    /\ other' = [other EXCEPT !.pc = "done",
                              !.concurrent = @ \/ OtherMeetsStore]
    /\ MarkOverlap
    /\ CountIncrement
    /\ UNCHANGED <<data, constructed, wvars, rvars>>

\* The writer's run of at most MaxStores calls, one call of store by a
\* second thread at any time after the constructor, and one reader calling
\* try_load.
NextTwoWriters ==
    \/ \E v \in Inputs : StoreLoadSeq(v)
    \/ StoreIncr1
    \/ MemcpyIn
    \/ StoreIncr2
    \/ \E v \in Inputs : OtherStoreBegin(v)
    \/ OtherStoreIncr1
    \/ OtherMemcpyIn
    \/ OtherStoreIncr2
    \/ TryLoadCall(TheReader)
    \/ MemcpyOut(TheReader)
    \/ TryLoadSeq2(TheReader)

TwoWriterSpec == Init /\ [][NextTwoWriters]_vars

\* A store that has been called is scheduled until it has returned; the
\* writer need not call store again.
StoreRuns == WF_vars(StoreIncr1 \/ MemcpyIn \/ StoreIncr2)

\* The run of at most MaxStores store calls, with every started store and
\* every reader inside a call scheduled again and again.
QuietSpec ==
    Init /\ [][Next]_vars /\ StoreRuns /\ \A r \in Readers : ReaderRuns(r)

\* ------------------------------------------------------------- properties
\* The reader's own variables: only its own steps change them.
rvarsOf(r) == <<rpc[r], inLoad[r], seq1[r], t[r], r_i[r], ret[r], rsteps[r], obs[r]>>

\* The step is the first counter read of a try_load of reader r.
FirstRead(r) == rpc[r] \in {"idle", "retry"} /\ rvarsOf(r)' # rvarsOf(r)

\* The step is the second counter read of a try_load of reader r.
SecondRead(r) == rpc[r] = "seq2" /\ rpc'[r] # "seq2"

\* A store has written the counter once and not yet twice.
InFlight == wpc \in {"copy", "incr2"}

Last(s) == s[Len(s)]

\* The values of a record of successful try_loads.
ValuesOf(o) == [i \in 1..Len(o) |-> o[i].value]

\* o is h with elements left out and elements repeated.
IsSubsequence(o, h) ==
    \E f \in [1..Len(o) -> 1..Len(h)] :
        /\ \A i \in 1..Len(o) : h[f[i]] = o[i]
        /\ \A i, j \in 1..Len(o) : i < j => f[i] <= f[j]

\* C1 (no tear): the value a try_load that returned true delivered, and so
\* the value a load returned, is the argument of one store call (the
\* constructor's included), never a mixture of the bytes of two.
C1_NoTear ==
    \A r \in Readers : ret[r] = "true" => t[r] \in Range(history)

\* A try_load succeeded with the value of the last of MaxStores calls, which
\* differs from the constructor's.
C1_Witness ==
    \E r \in Readers :
        /\ ret[r] = "true"
        /\ Len(history) = MaxStores
        /\ t[r] = Last(history)
        /\ t[r] # history[1]

C3_VersionValue ==
    \A r \in Readers :
        ret[r] = "true" =>
            /\ seq1[r] % 2 = 0
            /\ seq1[r] \div 2 \in 1..Len(history)
            /\ t[r] = history[seq1[r] \div 2]

\* A try_load that read 2 delivered the first value while the second, a
\* different one, is being stored or has been stored.
C3_Witness ==
    \E r \in Readers :
        /\ ret[r] = "true" /\ seq1[r] = 2
        /\ Len(history) >= 2 /\ history[2] # history[1]
        /\ t[r] = history[1]
        /\ seq >= 3

\* C4 (reader-side order): the values one reader obtained, in the order it
\* obtained them, are the arguments of the store calls with some left out.
C4_ReaderOrder ==
    \A r \in Readers : IsSubsequence(ValuesOf(obs[r]), history)

\* A reader obtained the first value and then a different one.
C4_Witness ==
    \E r \in Readers :
        /\ Len(obs[r]) >= 2
        /\ obs[r][1].value = history[1]
        /\ obs[r][2].value # history[1]

\* C5 (in-flight writes are rejected): a try_load whose first counter read
\* happens between the two counter writes of a store returns false at once.
C5_RejectsInFlight ==
    [][\A r \in Readers :
          (FirstRead(r) /\ InFlight)
              => (ret'[r] = "false" /\ rpc'[r] \in {"idle", "retry"})]_vars

\* A try_load has returned false after its first counter read and the store
\* it met is still between its counter writes.
C5_Witness ==
    \E r \in Readers :
        /\ ret[r] = "false" /\ rsteps[r] = 1 /\ rpc[r] = "idle"
        /\ InFlight /\ constructed

\* The reader is inside a call of load.
InLoadCall(r) == inLoad[r] /\ rpc[r] \in {"retry", "copy", "seq2", "trap"}

\* The reader's call of load has returned.
LoadReturned(r) == inLoad[r] /\ rpc[r] = "idle" /\ ret[r] = "true"

\* C6 (load returns): every call of load that is scheduled fairly returns,
\* also while the writer keeps calling store.
C6_LoadReturns ==
    \A r \in Readers : InLoadCall(r) ~> LoadReturned(r)

\* The same with the termination of the program counted as an end of the
\* call: violated by a reader every try_load of which meets a store.
C6_LoadReturnsOrTerminates ==
    \A r \in Readers : InLoadCall(r) ~> (LoadReturned(r) \/ Crashed)

\* C7 (store is wait-free): a store makes at most sizeof(T) + 3 atomic
\* accesses, has returned when it has made that many, and while it has not
\* returned its next access can be made wherever the readers are.
C7_StoreWaitFree ==
    /\ wsteps <= SizeofT + 3
    /\ (wpc = "idle" /\ history # <<>>) <=> wsteps = SizeofT + 3
    /\ (wpc # "idle" /\ ~Crashed) => ENABLED (StoreIncr1 \/ MemcpyIn \/ StoreIncr2)

\* A store is half way through its copy while every reader is between the
\* counter reads of a try_load.
C7_Witness ==
    /\ wpc = "copy" /\ w_i = 1 /\ constructed
    /\ \A r \in Readers : InWindow(r)

\* C8 (try_load is wait-free): a try_load makes at most sizeof(T) + 2 atomic
\* accesses, has returned true or false when it has made that many, and
\* while it has not returned its next access can be made.
C8_TryLoadWaitFree ==
    \A r \in Readers :
        /\ rsteps[r] <= SizeofT + 2
        /\ rsteps[r] = SizeofT + 2 =>
               (rpc[r] \in {"idle", "retry"} /\ ret[r] \in {"true", "false"})
        /\ rpc[r] \notin {"idle", "retry"} =>
               ENABLED (MemcpyOut(r) \/ TryLoadSeq2(r))

\* C9 (parity): the counter is odd exactly between the two counter writes of
\* a store.
C9_Parity == (seq % 2 = 1) <=> InFlight

\* The last store of the run is between its counter writes, with the bytes
\* written, and the counter is odd.
C9_Witness ==
    /\ wpc = "incr2" /\ seq % 2 = 1
    /\ Len(history) = MaxStores

\* The counter value the stores called so far lead to.
SeqOfStores ==
    2 * Len(history) - (IF wpc = "incr1" THEN 2 ELSE IF InFlight THEN 1 ELSE 0)

\* C10 (counter progress): the counter never decreases; every completed
\* store has raised it by 2, whatever the value stored; the first counter
\* readings of the successful try_loads of one reader are even and never
\* decrease.
C10_CounterProgress ==
    /\ [][seq' >= seq]_vars
    /\ [](seq = SeqOfStores)
    /\ [](\A r \in Readers :
             /\ \A i \in 1..Len(obs[r]) : obs[r][i].seq1 % 2 = 0
             /\ \A i, j \in 1..Len(obs[r]) : i < j => obs[r][i].seq1 <= obs[r][j].seq1)

\* Two stores of the same value have completed, the counter is 4, and a
\* reader that had loaded the value at 2 has loaded it again at 4.
C10_Witness ==
    /\ wpc = "idle" /\ seq = 4
    /\ Len(history) = 2 /\ history[1] = history[2]
    /\ \E r \in Readers :
           /\ Len(obs[r]) = 2
           /\ obs[r][1] = [seq1 |-> 2, value |-> history[1]]
           /\ obs[r][2] = [seq1 |-> 4, value |-> history[1]]
           /\ inLoad[r]

ReaderStep(r) == rvarsOf(r)' # rvarsOf(r)

\* The step is a step of store: one more atomic access of the writer.
StoreStep == wsteps' # wsteps

C13_DoubleCheckSound ==
    /\ [][\A r \in Readers :
            SecondRead(r) =>
                /\ ret'[r] = "true" <=> (seq1[r] % 2 = 0 /\ seq1[r] = seq)
                /\ ret'[r] = "true" => ~overlap[r]]_vars
    /\ [][\A r \in Readers :
            (FirstRead(r) /\ seq % 2 # 0) => ret'[r] = "false"]_vars
    /\ [](\A r \in Readers : InWindow(r) => seq1[r] % 2 = 0)

\* A store wrote bytes and returned while a try_load was between its counter
\* reads: the try_load has made every access, has returned false, and its
\* object holds a byte of each of the two values.
C13_Witness ==
    \E r \in Readers :
        /\ ret[r] = "false" /\ rsteps[r] = SizeofT + 2 /\ rpc[r] = "idle"
        /\ wpc = "idle" /\ Len(history) = 2 /\ seq = 4
        /\ t[r][1] = history[1][1] /\ t[r][SizeofT] = history[2][SizeofT]
        /\ history[1] # history[2]

\* The argument of the last store call that has written the counter twice,
\* once the constructor has returned.
MostRecentlyStored ==
    IF wpc = "idle" THEN Last(history) ELSE history[Len(history) - 1]

\* C14 (the storage is written only while the counter is odd): every step
\* that writes a storage byte is taken with the counter odd and leaves the
\* counter as it is; and, once the constructor has returned, whenever the
\* counter is even the storage holds every byte of the argument of the last
\* completed store: the previous value before a store's first counter write,
\* the new value after its second.
C14_WritesInOddWindow ==
    /\ [][(w_i' = w_i + 1 \/ data' # data) => (seq % 2 = 1 /\ seq' = seq)]_vars
    /\ []((constructed /\ seq % 2 = 0) => data = MostRecentlyStored)

\* A store that followed the constructor's, with another value, has made its
\* second counter write: the counter is even again and the storage holds
\* the new value.
C14_Witness ==
    /\ wpc = "idle" /\ seq = 4 /\ Len(history) = 2
    /\ history[2] # history[1]
    /\ data = history[2]

LoadCalled(r) == rpc[r] = "idle" /\ inLoad'[r] /\ ReaderStep(r)

\* C16 (early rejection leaves the output untouched): a try_load whose first
\* counter read finds the counter odd returns false in that step, having
\* made one atomic access, read no storage byte and no second counter value;
\* the object it was given (the caller's, or load's local on a later turn
\* of its loop) holds what it held before the call.
C16_EarlyRejection ==
    [][\A r \in Readers :
          (FirstRead(r) /\ seq % 2 # 0) =>
              /\ ret'[r] = "false" /\ rpc'[r] \in {"idle", "retry"}
              /\ rsteps'[r] = 1 /\ r_i'[r] = 0 /\ seq1'[r] = Unread
              /\ ~LoadCalled(r) => t'[r] = t[r]]_vars

\* A try_load given an object that holds the constructor's value, obtained
\* before, has returned false after one access, met by a store that has
\* written its first byte: the object still holds the constructor's value
\* and the storage does not.
C16_Witness ==
    \E r \in Readers :
        /\ ret[r] = "false" /\ rsteps[r] = 1 /\ rpc[r] = "idle" /\ ~inLoad[r]
        /\ InFlight /\ w_i >= 1
        /\ t[r] = history[1] /\ data # t[r]

\* C17 (load terminates once the writer is quiet): when the writer calls
\* store finitely often and every started store runs to its end, every call
\* of load that is scheduled fairly returns; a load that returns after the
\* last store has returned delivers the argument of that store.
C17_LoadTerminates ==
    /\ \A r \in Readers : InLoadCall(r) ~> LoadReturned(r)
    /\ [][\A r \in Readers :
            (SecondRead(r) /\ inLoad[r] /\ ret'[r] = "true"
                 /\ wpc = "idle" /\ Len(history) = MaxStores)
                => t'[r] = Last(history)]_vars

\* The same with the termination of the program counted as an end of the
\* call: a load that is not cut short by the end of memcpy_out returns, and
\* with the last value once the last store has returned.
C17_LoadReturnsOrTerminates ==
    /\ \A r \in Readers : InLoadCall(r) ~> (LoadReturned(r) \/ Crashed)
    /\ [][\A r \in Readers :
            (SecondRead(r) /\ inLoad[r] /\ ret'[r] = "true"
                 /\ wpc = "idle" /\ Len(history) = MaxStores)
                => t'[r] = Last(history)]_vars

\* Across the wrap of the counter: a store that read SeqModulus - 2 writes
\* SeqModulus - 1 and then 0; the counter is odd exactly between the two
\* counter writes of a store; a try_load that no store write met returns
\* true with the argument of the last store.
WrapKeeps ==
    /\ [][(StoreStep /\ old_seq = SeqModulus - 2) =>
            /\ wpc = "incr1" => seq' = SeqModulus - 1
            /\ wpc = "incr2" => seq' = 0]_vars
    /\ []((seq % 2 = 1) <=> InFlight)
    /\ [][\A r \in Readers :
            (SecondRead(r) /\ wpc = "idle" /\ ~overlap[r])
                => (ret'[r] = "true" /\ t'[r] = w_t)]_vars

\* A try_load that returns true after at most n writes of the counter
\* between its two counter reads delivers the complete value the storage
\* holds, the argument of a store.
NoTearWithin(n) ==
    \A r \in Readers :
        (SecondRead(r) /\ ret'[r] = "true" /\ incs[r] <= n)
            => (t'[r] = data /\ data \in Inputs)

\* C18 as stated (counter wraparound): with the counter SeqBits wide, the
\* wrap keeps the counter writes, the parity and the round trip as they are,
\* and no try_load during which the counter is written at most 2^SeqBits
\* times delivers a mixture.
C18_Wraparound == WrapKeeps /\ [][NoTearWithin(SeqModulus)]_vars

\* C18 as amended: the same for every try_load during which the counter is
\* written fewer than 2^SeqBits times (fewer than 2^(SeqBits - 1) complete
\* stores).
C18_WraparoundBelowFullWrap == WrapKeeps /\ [][NoTearWithin(SeqModulus - 1)]_vars

\* After the counter has wrapped, a try_load that read 0 has returned true
\* with the value the storage holds.
C18_Witness ==
    \E r \in Readers :
        /\ constructed /\ ret[r] = "true" /\ seq1[r] = 0
        /\ t[r] = data /\ t[r] \in Inputs /\ seq = 0

\* C19 (the output on a late failure): a try_load reads the counter a second
\* time only after it has copied every byte into the object it was given;
\* an object a try_load returned true for holds the argument of a store
\* call; load returns only at a try_load that returned true, with such a
\* value.  (That a try_load can return false and leave a mixture in the
\* object is what C19_Witness reaches.)
C19_OutputOnLateFailure ==
    /\ [](\A r \in Readers :
             rpc[r] = "seq2" => (r_i[r] = SizeofT /\ rsteps[r] = SizeofT + 1))
    /\ [](\A r \in Readers : ret[r] = "true" => t[r] \in Range(history))
    /\ [][\A r \in Readers :
            (inLoad'[r] /\ rpc[r] # "idle" /\ rpc'[r] = "idle")
                => (SecondRead(r) /\ ret'[r] = "true" /\ t'[r] \in Range(history))]_vars

\* A try_load called directly has made every access and returned false, and
\* the object it was given holds the first byte of the constructor's value
\* and the last byte of the second store's: a value no store was given,
\* which is not what the object held before the call either (before the one
\* late failure a run of two stores has room for, it held NotStored or a
\* stored value).
C19_Witness ==
    \E r \in Readers :
        /\ ret[r] = "false" /\ rsteps[r] = SizeofT + 2 /\ ~inLoad[r]
        /\ Len(history) = 2
        /\ t[r][1] = history[1][1] /\ t[r][SizeofT] = history[2][SizeofT]
        /\ t[r] \notin Range(history) /\ t[r] # NotStored

\* The second thread's call of store and a call of the first writer have
\* run at the same time.
Interleaved ==
    \/ other.concurrent
    \/ other.pc \in {"incr1", "copy", "incr2"} /\ OtherMeetsStore

\* The arguments of all store calls made, the second thread's included.
AllStored == Range(history) \cup (IF other.pc = "none" THEN {} ELSE {other.t})

\* The store calls made, the second thread's included.
StoreCalls == Len(history) + (IF other.pc = "none" THEN 0 ELSE 1)

\* The counter is even while a store is writing bytes.
EvenWhileWriting == seq % 2 = 0 /\ (wpc = "copy" \/ other.pc = "copy")

\* Every store called has returned and the counter is not twice their number.
LostIncrement ==
    /\ wpc = "idle" /\ other.pc \in {"none", "done"}
    /\ seq # 2 * StoreCalls

\* A try_load has returned true with a value no store call was given.
TrueWithMixture == \E r \in Readers : ret[r] = "true" /\ t[r] \notin AllStored

\* C20 (the single writer is necessary): the counter even while a store
\* writes bytes, a counter that is not twice the number of completed stores,
\* a try_load that returns true with a mixture: each is reached only when
\* two calls of store have run at the same time, never with one writer or
\* with calls that follow one another.  (That they are reached then is what
\* C20_Witness reaches.)
C20_SingleWriterNecessary ==
    (EvenWhileWriting \/ LostIncrement \/ TrueWithMixture \/ other.wroteWhileEven)
        => Interleaved

\* Two calls of store with different values ran at the same time and have
\* returned: the second thread wrote a byte with the counter even, the
\* counter is 4 after the constructor's store and these two, and a try_load
\* that read 4 twice has returned true with a byte of each value.
C20_Witness ==
    /\ Len(history) = 2 /\ other.pc = "done" /\ wpc = "idle"
    /\ other.t # history[2]
    /\ other.wroteWhileEven
    /\ seq = 4
    /\ \E r \in Readers :
           /\ ret[r] = "true" /\ seq1[r] = 4
           /\ t[r] \notin AllStored
           /\ \A i \in 1..SizeofT : t[r][i] \in {other.t[i], history[2][i]}

====
